---- MODULE Spec2Model ----
(***************************************************************************)
(* Model of analysis.ipynb: the notebook that splits the flat GitHub CSV   *)
(* export of llvm/circt into issues, pull requests and their comments,     *)
(* selects the issues labelled "bug", counts the labels of the bug issues  *)
(* and selects the pull requests that mention a bug issue number.          *)
(*                                                                         *)
(* One action per code cell, run top to bottom.  A DataFrame that the      *)
(* notebook derives from df by boolean masking keeps df's row index, so it *)
(* is modelled as the set of df row indices it holds; a Series is a        *)
(* function from row index to value.  Texts are sequences of one-character *)
(* strings.  The text columns are those of a loaded export (string dtype): *)
(* a missing text and an empty text both hold no match and are both the    *)
(* empty sequence.  issue.html_url, issue.labels, issue.number and         *)
(* issue.url are populated on every row, as the notebook's description of  *)
(* the export states.  The plotting cell binds only names of its own       *)
(* (labels_to_plot, x, y, data, ax) and the to_csv call writes a file;     *)
(* neither changes a global that a later cell reads, and both are left out.*)
(***************************************************************************)
EXTENDS Integers, Sequences, FiniteSets, TLC

\* ------------------------------------------------------------------------
\* Bounds of the explored inputs
\* ------------------------------------------------------------------------
MaxRows == 3
MaxTextLen == 6
MaxLabels == 2

\* ------------------------------------------------------------------------
\* Texts
\* ------------------------------------------------------------------------
NaN == "NaN"

DigitChars == <<"0", "1", "2", "3", "4", "5", "6", "7", "8", "9">>

\* \d of the mention pattern
IsDigit(c) == \E d \in 1..10 : DigitChars[d] = c

DigitValue(c) == (CHOOSE d \in 1..10 : DigitChars[d] = c) - 1

RECURSIVE IntOf(_)
\* int(s) of a captured digit run
IntOf(s) ==
    IF s = <<>> THEN 0
    ELSE 10 * IntOf(SubSeq(s, 1, Len(s) - 1)) + DigitValue(s[Len(s)])

RECURSIVE Digits(_)
\* the decimal text of a thread number, as it stands in the urls
Digits(n) ==
    IF n < 10 THEN <<DigitChars[n + 1]>>
    ELSE Digits(n \div 10) \o <<DigitChars[(n % 10) + 1]>>

\* Series.str.contains(pat): pat occurs somewhere in s
str_contains(s, pat) ==
    \E i \in 1..(Len(s) - Len(pat) + 1) : SubSeq(s, i, i + Len(pat) - 1) = pat

\* the quantifier {1,4} of the mention pattern "#(\d{1,4})"
MinDigits == 1
MaxDigits == 4

\* a lazy quantifier \d{1,4}? in place of the greedy one: one digit is taken
DigitRunLazy(s, j, max) ==
    IF max = 0 \/ j > Len(s) \/ ~IsDigit(s[j]) THEN 0 ELSE 1

RECURSIVE DigitRun(_, _, _)
\* greedy \d{..max}: the number of digits matched from position j on
DigitRun(s, j, max) ==
    IF max = 0 \/ j > Len(s) \/ ~IsDigit(s[j]) THEN 0
    ELSE 1 + DigitRun(s, j + 1, max - 1)

RECURSIVE ScanFrom(_, _, _, _)
\* the scan of the pattern "#(\d{lo,hi})" over s: try the pattern at i, on
\* a match take the group and go on after the match, otherwise go on at i + 1
ScanFrom(s, i, lo, hi) ==
    IF i > Len(s) THEN <<>>
    ELSE IF s[i] = "#" /\ DigitRun(s, i + 1, hi) >= lo
         THEN LET k == DigitRun(s, i + 1, hi)
              IN  <<SubSeq(s, i + 1, i + k)>> \o ScanFrom(s, i + k + 1, lo, hi)
         ELSE ScanFrom(s, i + 1, lo, hi)

\* the pattern written "#(\d{1,3})": a run of four digits is cut after three
extractall_three(s) == ScanFrom(s, 1, MinDigits, MaxDigits - 1)

\* the groups Series.str.extractall("#(\d{1,4})") yields for one cell
extractall(s) == ScanFrom(s, 1, MinDigits, MaxDigits)

\* ------------------------------------------------------------------------
\* The JSON text of issue.labels, as a sequence of lexical tokens
\* ------------------------------------------------------------------------
Punct(p) == [t |-> p, v |-> ""]
Str(s) == [t |-> "str", v |-> s]

RECURSIVE ParseMembers(_, _, _)
\* the members of an object, from the key at position i to the closing brace
ParseMembers(toks, i, obj) ==
    LET o == (toks[i].v :> toks[i + 2].v) @@ obj
    IN  IF toks[i + 3].t = "," THEN ParseMembers(toks, i + 4, o)
        ELSE [val |-> o, next |-> i + 4]

RECURSIVE ParseElements(_, _, _)
\* the elements of an array, from position i to the closing bracket
ParseElements(toks, i, acc) ==
    IF toks[i].t = "]" THEN acc
    ELSE IF toks[i].t = "," THEN ParseElements(toks, i + 1, acc)
    ELSE LET m == ParseMembers(toks, i + 1, <<>>)
         IN  ParseElements(toks, m.next, Append(acc, m.val))

\* json.loads of a labels cell: the list of label objects (key -> value)
json_loads(toks) == ParseElements(toks, 2, <<>>)

RECURSIVE LabelLoop(_, _, _)
\* for label in labels: if label["name"] == label_name: return True
LabelLoop(labels, k, label_name) ==
    IF k > Len(labels) THEN FALSE
    ELSE IF labels[k]["name"] = label_name THEN TRUE
    ELSE LabelLoop(labels, k + 1, label_name)

\* the loop left after its first label
has_label_first(item, label_name) ==
    /\ json_loads(item) # <<>>
    /\ json_loads(item)[1]["name"] = label_name

has_label(item, label_name) == LabelLoop(json_loads(item), 1, label_name)

is_bug(item) == has_label(item, "bug")

\* ------------------------------------------------------------------------
\* The rows of the export
\* ------------------------------------------------------------------------
HtmlBase == <<"h","t","t","p","s",":","/","/","g","i","t","h","u","b",".","c","o","m","/","l","l","v","m","/","c","i","r","c","t","/">>
ApiBase == "https://api.github.com/repos/llvm/circt/issues/"
PullSegment == <<"p","u","l","l">>
IssuesSegment == <<"i","s","s","u","e","s">>
OtherSegment == <<"d","i","s","c","u","s","s","i","o","n","s">>
Kinds == {IssuesSegment, PullSegment, OtherSegment}

Timestamp == "2023-01-05T17:03:11Z"

\* one label object of the JSON text: {"name": ..., "color": ...}
LabelTokens(name) ==
    <<Punct("{"), Str("name"), Punct(":"), Str(name), Punct(","),
      Str("color"), Punct(":"), Str("ededed"), Punct("}")>>

RECURSIVE JoinLabels(_)
JoinLabels(names) ==
    IF names = <<>> THEN <<>>
    ELSE IF Len(names) = 1 THEN LabelTokens(names[1])
    ELSE LabelTokens(names[1]) \o <<Punct(",")>> \o JoinLabels(Tail(names))

\* the issue.labels cell that lists the labels named names, in order
LabelsCell(names) == <<Punct("[")>> \o JoinLabels(names) \o <<Punct("]")>>

\* a row of the export; a thread head has no comment.* value.  issue.url is
\* kept as its fixed prefix and the thread number that ends it
Row(number, kind, closed_at, labels, body, comment_created_at, comment_body) ==
    [issue_url |-> <<ApiBase, number>>,
     issue_html_url |-> HtmlBase \o kind \o <<"/">> \o Digits(number),
     issue_number |-> number,
     issue_closed_at |-> closed_at,
     issue_labels |-> labels,
     issue_body |-> body,
     comment_created_at |-> comment_created_at,
     comment_body |-> comment_body]

Mention99 == <<"#","9","9">>
Mention12345 == <<"#","1","2","3","4","5">>
Mention3456 == <<"#","3","4","5","6">>
Mention012 == <<"#","0","1","2">>
SeeIssue12 == <<"S","e","e"," ","i","s","s","u","e"," ","#","1","2">>
SeeIssue13 == <<"S","e","e"," ","i","s","s","u","e"," ","#","1","3">>
FixesText == <<"F","i","x","e","s"," ","#","1","2"," ","a","n","d"," ","r","e","f","e","r","e","n","c","e","s"," ","#","3","4","5","6",","," ","s","e","e"," ","#","1","2"," ","a","g","a","i","n">>

\* Threads: every combination of url shape, state and bug label; a pull
\* request body is empty or mentions #99, the other bodies are empty
Numbers == {12, 99}
Shapes ==
    {s \in [kind : Kinds, closed_at : {NaN, Timestamp},
            labels : {LabelsCell(<<>>), LabelsCell(<<"bug">>)},
            body : {<<>>, Mention99}] :
       s.body = <<>> \/ s.kind = PullSegment}
\* a row is the head of its thread or a comment on it
RowKinds == [created_at : {NaN}, body : {<<>>}]
              \cup [created_at : {Timestamp}, body : {Mention99}]

ThreadRow(number, shape, c) ==
    Row(number, shape.kind, shape.closed_at, shape.labels, shape.body,
        c.created_at, c.body)

\* exports of up to MaxRows rows over two threads; the rows of a thread
\* carry the same issue.* values, and thread 99 does not mention itself
ThreadTable(df0) ==
    \E n \in 0..MaxRows : \E th \in [Numbers -> Shapes] :
        /\ th[99].body = <<>>
        /\ \E sel \in [1..n -> Numbers \X RowKinds] :
             df0 = [k \in 1..n |-> ThreadRow(sel[k][1], th[sel[k][1]], sel[k][2])]

\* exports of a closed bug issue, numbered 1 or 12, and a closed pull request
\* whose body is any text of up to MaxTextLen characters, or one of the
\* longer texts
Alphabet == {"#", "1", "x"}
Texts == UNION {[1..n -> Alphabet] : n \in 0..MaxTextLen}
           \cup {Mention12345, Mention3456, Mention012, SeeIssue12,
                 SeeIssue13, FixesText}
TextTable(df0) ==
    \E b \in {1, 12} : \E t \in Texts :
        df0 = <<Row(b, IssuesSegment, Timestamp, LabelsCell(<<"bug">>), <<>>, NaN, <<>>),
                Row(7, PullSegment, Timestamp, LabelsCell(<<>>), t, NaN, <<>>)>>

\* exports of two closed issues with any labels, up to MaxLabels each
LabelNames == {"bug", "Bug", "FIRRTL"}
LabelLists == UNION {[1..n -> LabelNames] : n \in 0..MaxLabels}
LabelTable(df0) ==
    \E a \in LabelLists : \E b \in LabelLists :
        df0 = <<Row(12, IssuesSegment, Timestamp, LabelsCell(a), <<>>, NaN, <<>>),
                Row(99, IssuesSegment, Timestamp, LabelsCell(b), <<>>, NaN, <<>>)>>

\* ------------------------------------------------------------------------
\* State: the notebook's globals and the next cell to run
\* ------------------------------------------------------------------------
VARIABLES df, closed_prs_and_issues, prs, pr_comments, issues, issue_comments,
          bug_mask, bug_issues, bug_numbers, all_bug_labels, total_bugs,
          label_count, proportion, mentioned_numbers,
          mentioned_numbers_comments, mention_filter, prs_that_mention, pc

classified == <<closed_prs_and_issues, prs, pr_comments, issues, issue_comments>>
bugs == <<bug_mask, bug_issues, bug_numbers>>
counts == <<total_bugs, label_count, proportion>>
linked == <<mentioned_numbers, mentioned_numbers_comments, mention_filter,
            prs_that_mention>>
vars == <<df, classified, bugs, all_bug_labels, counts, linked, pc>>

\* df = pd.read_csv(...): the export is loaded, no other global is bound
Init ==
    /\ ThreadTable(df) \/ TextTable(df) \/ LabelTable(df)
    /\ closed_prs_and_issues = {} /\ prs = {} /\ pr_comments = {}
    /\ issues = {} /\ issue_comments = {}
    /\ bug_mask = <<>> /\ bug_issues = {} /\ bug_numbers = <<>>
    /\ all_bug_labels = {}
    /\ total_bugs = 0 /\ label_count = <<>> /\ proportion = <<>>
    /\ mentioned_numbers = <<>> /\ mentioned_numbers_comments = <<>>
    /\ mention_filter = <<>> /\ prs_that_mention = {}
    /\ pc = "loaded"

isna(v) == v = NaN

\* the closed filter left out: every row is kept
closed_filter_all(d) == DOMAIN d

\* closed_filter = ~pd.isna(df["issue.closed_at"])
closed_filter(d) == {i \in DOMAIN d : ~isna(d[i].issue_closed_at)}

\* the pull request split left out: no row is taken for a pull request
pr_filter_none(d, rows) == {}

\* pr_filter = closed_prs_and_issues["issue.html_url"].str.contains("pull")
pr_filter(d, rows) == {i \in rows : str_contains(d[i].issue_html_url, PullSegment)}

\* the mask negated: the comment rows are taken for the thread heads
comment_filter_inverted(d, rows) == {i \in rows : ~isna(d[i].comment_created_at)}

\* pd.isna(<frame>["comment.created_at"]): the rows that are thread heads
comment_filter(d, rows) == {i \in rows : isna(d[i].comment_created_at)}

\* the cell that separates issues, pull requests and comments
Classify ==
    /\ pc = "loaded"
    /\ LET closed == closed_filter(df)
           prs_and_comments == pr_filter(df, closed)
           issues_and_comments == closed \ pr_filter(df, closed)
       IN  /\ closed_prs_and_issues' = closed
           /\ prs' = comment_filter(df, prs_and_comments)
           /\ pr_comments' = prs_and_comments \ comment_filter(df, prs_and_comments)
           /\ issues' = comment_filter(df, issues_and_comments)
           /\ issue_comments' =
                issues_and_comments \ comment_filter(df, issues_and_comments)
    /\ pc' = "classified"
    /\ UNCHANGED <<df, bugs, all_bug_labels, counts, linked>>

\* bug_mask = issues["issue.labels"].apply(is_bug)
bug_mask_of(d, rows) == [i \in rows |-> is_bug(d[i].issue_labels)]

\* the cell that selects the bug issues and their numbers
FindBugs ==
    /\ pc = "classified"
    /\ bug_mask' = bug_mask_of(df, issues)
    /\ bug_issues' = {i \in issues : bug_mask_of(df, issues)[i]}
    /\ bug_numbers' =
         [i \in {j \in issues : bug_mask_of(df, issues)[j]} |-> df[i].issue_number]
    /\ pc' = "bugs"
    /\ UNCHANGED <<df, classified, all_bug_labels, counts, linked>>

\* the names of the labels of the rows: the loop that fills all_bug_labels
label_names(d, rows) ==
    UNION {{json_loads(d[i].issue_labels)[k]["name"] :
              k \in DOMAIN json_loads(d[i].issue_labels)} : i \in rows}

\* the cell that collects the labels of the bug issues
CollectLabels ==
    /\ pc = "bugs"
    /\ all_bug_labels' = label_names(df, bug_issues)
    /\ pc' = "labels"
    /\ UNCHANGED <<df, classified, bugs, counts, linked>>

\* the count taken over every row of the export, not over the bug issues
count_label_all(d, rows, bug_label) ==
    Cardinality({i \in DOMAIN d : has_label(d[i].issue_labels, bug_label)})

\* bug_issues["issue.labels"].apply(lambda item: has_label(item, bug_label)).sum()
count_label(d, rows, bug_label) ==
    Cardinality({i \in rows : has_label(d[i].issue_labels, bug_label)})

\* the cell that prints each label's count and its share of the bug issues;
\* the quotient label_count/total_bugs is kept as numerator and denominator
CountLabels ==
    /\ pc = "labels"
    /\ total_bugs' = Cardinality(bug_issues)
    /\ label_count' = [l \in all_bug_labels |-> count_label(df, bug_issues, l)]
    /\ proportion' = [l \in all_bug_labels |->
                        [num |-> count_label(df, bug_issues, l),
                         den |-> Cardinality(bug_issues)]]
    /\ pc' = "counted"
    /\ UNCHANGED <<df, classified, bugs, all_bug_labels, linked>>

\* <frame>[column].str.extractall("#(\d{1,4})")[0]: the groups of every row
\* that holds a match, under the row's index
extract_column(d, rows, column) ==
    [i \in {j \in rows : extractall(d[j][column]) # <<>>} |->
        extractall(d[i][column])]

\* any mention counts, whatever its number
does_mention_any(numbers, bug_nums) == numbers # <<>>

\* does_mention_bug(numbers), against the global bug_numbers
does_mention_bug(numbers, bug_nums) ==
    \E k \in DOMAIN numbers :
        \E b \in DOMAIN bug_nums : IntOf(numbers[k]) = bug_nums[b]

\* the loop over prs.index: (idx, 0) in <series>.index holds when the series
\* has a first match under the row index idx
mentions_bug(idx, body_numbers, comment_numbers, bug_nums) ==
    \/ /\ idx \in DOMAIN body_numbers
       /\ does_mention_bug(body_numbers[idx], bug_nums)
    \/ /\ idx \in DOMAIN comment_numbers
       /\ does_mention_bug(comment_numbers[idx], bug_nums)

\* the cell that selects the pull requests mentioning a bug issue
LinkPRs ==
    /\ pc = "counted"
    /\ LET body_numbers == extract_column(df, prs, "issue_body")
           comment_numbers == extract_column(df, pr_comments, "comment_body")
           filter == [idx \in prs |->
                        mentions_bug(idx, body_numbers, comment_numbers, bug_numbers)]
       IN  /\ mentioned_numbers' = body_numbers
           /\ mentioned_numbers_comments' = comment_numbers
           /\ mention_filter' = filter
           /\ prs_that_mention' = {idx \in prs : filter[idx]}
    /\ pc' = "done"
    /\ UNCHANGED <<df, classified, bugs, all_bug_labels, counts>>

Next == Classify \/ FindBugs \/ CollectLabels \/ CountLabels \/ LinkPRs

Spec == Init /\ [][Next]_vars

\* ------------------------------------------------------------------------
\* Vocabulary of the properties, read off df itself
\* ------------------------------------------------------------------------
Range(f) == {f[x] : x \in DOMAIN f}

Rows == DOMAIN df
ClosedRows == {i \in Rows : df[i].issue_closed_at # NaN}
HeadRows == {i \in Rows : df[i].comment_created_at = NaN}
CommentRows == Rows \ HeadRows
\* pat is written somewhere in the text s
Written(s, pat) ==
    \E k \in 0..(Len(s) - Len(pat)) : \A j \in 1..Len(pat) : s[k + j] = pat[j]
\* rows whose html_url carries the marker "pull"
PullRows == {i \in Rows : Written(df[i].issue_html_url, <<"p", "u", "l", "l">>)}
\* rows whose html_url has the path of an issue, of a pull request
IssueShaped ==
    {i \in Rows :
       Written(df[i].issue_html_url, <<"/", "i", "s", "s", "u", "e", "s", "/">>)}
PullShaped ==
    {i \in Rows : Written(df[i].issue_html_url, <<"/", "p", "u", "l", "l", "/">>)}
Classes == <<issues, issue_comments, prs, pr_comments>>
Classified == issues \cup issue_comments \cup prs \cup pr_comments

\* the label names written in a labels cell: the strings after a "name" key
NamesIn(cell) ==
    {cell[k + 2].v : k \in {j \in 1..Len(cell) - 2 :
                              cell[j] = Str("name") /\ cell[j + 1] = Punct(":")}}

\* the mentions of a text: at every "#" followed by a digit, in order, the
\* integer written by the longest run of at most four digits after it
MentionStarts(s) == {i \in 1..Len(s) - 1 : s[i] = "#" /\ IsDigit(s[i + 1])}
MentionLen(s, i) ==
    CHOOSE k \in 1..4 :
        /\ \A j \in 1..k : i + j <= Len(s) /\ IsDigit(s[i + j])
        /\ k = 4 \/ i + k + 1 > Len(s) \/ ~IsDigit(s[i + k + 1])
NthStart(s, n) ==
    CHOOSE p \in MentionStarts(s) :
        Cardinality({q \in MentionStarts(s) : q < p}) = n - 1
Mentions(s) ==
    [n \in 1..Cardinality(MentionStarts(s)) |->
        IntOf(SubSeq(s, NthStart(s, n) + 1, NthStart(s, n) + MentionLen(s, NthStart(s, n))))]

\* the integers of the groups the linker holds for row i of a series
Parsed(series, i) ==
    IF i \in DOMAIN series THEN [k \in DOMAIN series[i] |-> IntOf(series[i][k])]
    ELSE <<>>

Occurrences(seq, v) == Cardinality({k \in DOMAIN seq : seq[k] = v})
SameBag(a, b) ==
    /\ Len(a) = Len(b)
    /\ \A v \in Range(a) \cup Range(b) : Occurrences(a, v) = Occurrences(b, v)

BugNumbers == Range(bug_numbers)
\* the comment rows of the pull request at row p
CommentsOf(p) == {c \in pr_comments : df[c].issue_url = df[p].issue_url}
\* every number the pull request at row p mentions, in its body or a comment
AllMentions(p) ==
    Range(Mentions(df[p].issue_body))
      \cup UNION {Range(Mentions(df[c].comment_body)) : c \in CommentsOf(p)}
\* the pull request at row p mentions a bug number in its body or a comment
MentionsBugAnywhere(p) ==
    \/ Range(Mentions(df[p].issue_body)) \cap BugNumbers # {}
    \/ \E c \in CommentsOf(p) : Range(Mentions(df[c].comment_body)) \cap BugNumbers # {}

\* ------------------------------------------------------------------------
\* Properties
\* ------------------------------------------------------------------------

\* C1: once the classifier has run, issues, issue_comments, prs and
\* pr_comments are pairwise disjoint, their union is exactly the rows whose
\* closed_at is present, their sizes sum to the number of closed rows, and
\* a row with no closed_at is in none of them.
PartitionOfClosed ==
    pc # "loaded" =>
        /\ \A a, b \in 1..4 : a # b => Classes[a] \cap Classes[b] = {}
        /\ Classified = ClosedRows
        /\ Cardinality(issues) + Cardinality(issue_comments)
             + Cardinality(prs) + Cardinality(pr_comments) = Cardinality(ClosedRows)
        /\ \A i \in Rows \ ClosedRows : i \notin Classified

\* C1 witness: an export with an open row and a closed issue with a comment
PartitionOfClosedSeen ==
    /\ pc = "classified"
    /\ Rows \ ClosedRows # {}
    /\ issues # {} /\ issue_comments # {}

MalformedUrlRejected ==
    pc # "loaded" =>
        \A i \in ClosedRows \ (IssueShaped \cup PullShaped) : i \notin Classified

\* C6 (bug_mask and bug_issues as the cell leaves them and as they stand when
\* the notebook ends): has_label(item, name) is true exactly when the labels written in item
\* include one named name (case-sensitive), for every cell and every name;
\* bug_mask is that answer for "bug" and bug_issues is exactly the issue
\* heads for which it is true.
LabelPredicateExact ==
    /\ pc = "bugs" =>
         \A i \in Rows : \A l \in LabelNames \cup {"good first issue"} :
            has_label(df[i].issue_labels, l) <=> l \in NamesIn(df[i].issue_labels)
    /\ pc \in {"bugs", "done"} =>
         /\ DOMAIN bug_mask = issues
         /\ \A i \in issues : bug_mask[i] <=> "bug" \in NamesIn(df[i].issue_labels)
         /\ bug_issues = {i \in issues : "bug" \in NamesIn(df[i].issue_labels)}

\* C6 witness: a bug issue whose "bug" label is not its first label, beside
\* an issue labelled "Bug" that is no bug issue
LabelPredicateSeen ==
    /\ pc = "bugs"
    /\ \E i \in bug_issues : json_loads(df[i].issue_labels)[1]["name"] # "bug"
    /\ \E i \in issues \ bug_issues : "Bug" \in NamesIn(df[i].issue_labels)

\* C7 as stated: the mentions of "Fixes #12 and references #3456, see #12
\* again" are the multiset {12, 3, 456, 12}.
FixesTextYieldsSplitMentions ==
    pc = "done" =>
        \A i \in prs : df[i].issue_body = FixesText =>
            SameBag(Parsed(mentioned_numbers, i), <<12, 3, 456, 12>>)

\* C7 amended: the mentions of that text are 12, 3456, 12, in this order.
FixesTextYieldsWholeMentions ==
    pc = "done" =>
        \A i \in prs : df[i].issue_body = FixesText =>
            Parsed(mentioned_numbers, i) = <<12, 3456, 12>>

\* C7 witness: the linker has scanned a pull request with that body
FixesTextSeen ==
    pc = "done" /\ \E i \in prs : df[i].issue_body = FixesText

\* C9: the groups the linker holds for a pull request body, and for a pull
\* request comment, are the mentions of the text: one per "#" followed by a
\* digit, in order, each the longest run of at most four digits; "#3456"
\* gives 3456, "#12345" gives 1234, and a text with no "#"-digit gives none.
ExtractionIsLongestRun ==
    pc = "done" =>
        /\ \A i \in prs : Parsed(mentioned_numbers, i) = Mentions(df[i].issue_body)
        /\ \A i \in pr_comments :
             Parsed(mentioned_numbers_comments, i) = Mentions(df[i].comment_body)
        /\ \A i \in prs :
             /\ df[i].issue_body = Mention3456 => Parsed(mentioned_numbers, i) = <<3456>>
             /\ df[i].issue_body = Mention12345 => Parsed(mentioned_numbers, i) = <<1234>>
             /\ MentionStarts(df[i].issue_body) = {} => i \notin DOMAIN mentioned_numbers

\* C9 witness: a body with a run of five digits after "#" has been scanned
ExtractionSeen ==
    /\ pc = "done"
    /\ \E i \in prs : /\ df[i].issue_body = <<"#", "1", "1", "1", "1", "1">>
                      /\ Parsed(mentioned_numbers, i) = <<1111>>

\* C2: a pull request is linked whenever its body, or the body of a pull
\* request comment with its url, mentions a bug number.
CommentMentionLinks ==
    pc = "done" => \A p \in prs : MentionsBugAnywhere(p) => p \in prs_that_mention

\* C3: the linked pull requests are pull request heads, each mentions a bug
\* number in its body or in one of its own comments, and a pull request
\* with no mention, or with mentions outside the bug numbers only, gets the
\* answer False and is not linked.
LinkedOnlyIfMentionsBug ==
    pc = "done" =>
        /\ prs_that_mention \subseteq prs
        /\ prs \subseteq HeadRows \cap ClosedRows
        /\ \A p \in prs_that_mention : MentionsBugAnywhere(p)
        /\ DOMAIN mention_filter = prs
        /\ \A p \in prs : ~MentionsBugAnywhere(p) =>
             mention_filter[p] = FALSE /\ p \notin prs_that_mention

\* C3 witness: with a bug issue present, a pull request whose body is "See
\* issue #13" has been left out
LinkedOnlyIfMentionsBugSeen ==
    /\ pc = "done"
    /\ BugNumbers # {}
    /\ \E p \in prs \ prs_that_mention : df[p].issue_body = SeeIssue13

\* C8: a count is kept for exactly the labels found on a bug issue, each
\* between 0 and total_bugs, so each proportion lies in 0..1; the count of
\* "bug" is total_bugs; with no bug issue no proportion is computed.
ProportionBounds ==
    pc \in {"counted", "done"} =>
        /\ total_bugs = Cardinality(bug_issues)
        /\ DOMAIN label_count = UNION {NamesIn(df[i].issue_labels) : i \in bug_issues}
        /\ DOMAIN proportion = DOMAIN label_count
        /\ \A l \in DOMAIN label_count :
             /\ 0 <= label_count[l] /\ label_count[l] <= total_bugs
             /\ proportion[l].den = total_bugs /\ proportion[l].den > 0
             /\ proportion[l].num = label_count[l]
             /\ 0 <= proportion[l].num /\ proportion[l].num <= proportion[l].den
        /\ total_bugs > 0 =>
             /\ "bug" \in DOMAIN label_count
             /\ label_count["bug"] = total_bugs
             /\ proportion["bug"].num = proportion["bug"].den
        /\ total_bugs = 0 => DOMAIN proportion = {}

\* C8 witness: two bug issues and a label that only one of them carries
ProportionBoundsSeen ==
    /\ pc = "counted"
    /\ total_bugs = 2
    /\ \E l \in DOMAIN label_count : label_count[l] = 1

\* C10 (bug_numbers as its cell leaves it and as it stands when the notebook
\* ends): bug_numbers holds one entry per closed issue head labelled "bug" (a
\* head whose html_url has no "pull"), with its number, and nothing else:
\* no open issue, no pull request, no comment row; a pull request whose
\* mentions are all outside those numbers is not linked.
BugNumbersFromClosedIssueHeads ==
    /\ pc \in {"bugs", "done"} =>
         /\ DOMAIN bug_numbers =
              {i \in (ClosedRows \cap HeadRows) \ PullRows :
                 "bug" \in NamesIn(df[i].issue_labels)}
         /\ \A i \in DOMAIN bug_numbers : bug_numbers[i] = df[i].issue_number
    /\ pc = "done" =>
         \A p \in prs :
            (\A m \in AllMentions(p) :
                ~\E i \in (ClosedRows \cap HeadRows) \ PullRows :
                    /\ "bug" \in NamesIn(df[i].issue_labels)
                    /\ df[i].issue_number = m)
            => p \notin prs_that_mention

\* C10 witness: a pull request that mentions #99, the number of an open
\* issue labelled "bug", has been left out
BugNumbersSeen ==
    /\ pc = "done"
    /\ \E i \in HeadRows \ (ClosedRows \cup PullRows) :
         df[i].issue_number = 99 /\ "bug" \in NamesIn(df[i].issue_labels)
    /\ \E p \in prs \ prs_that_mention : df[p].issue_body = Mention99

====
